---- MODULE Spec2Model ----
(***************************************************************************)
(* A model of lib/zone.js: the authoritative zone engine (Zone, RecordMap, *)
(* NameList and the helpers search, insert, findLower, isWild, convert).   *)
(*                                                                         *)
(* A domain name is the sequence of its labels, leftmost first; the root   *)
(* "." is the empty sequence.  A record is [name, type, data]; data holds  *)
(* the fields zone.js reads (target, ns, mx, typeCovered).                 *)
(***************************************************************************)
EXTENDS Integers, Sequences, FiniteSets, TLC

VARIABLES origin, count, names, wild, nsec, zskkey, res, frame

vars == <<origin, count, names, wild, nsec, zskkey, res, frame>>

(***************************************************************************)
(* Bounds of the model.                                                    *)
(***************************************************************************)
\* Records a zone holds at most (Zone.insert is unbounded in the code).
MaxRecords == 3
\* Entries of the answer list at which the model stops following Zone.find's loop.
MaxAnswer == 8

(***************************************************************************)
(* constants.js: the record types and response codes zone.js refers to.    *)
(***************************************************************************)
types ==
  [A |-> 1, NS |-> 2, CNAME |-> 5, SOA |-> 6, MX |-> 15, AAAA |-> 28,
   SRV |-> 33, DNAME |-> 39, DS |-> 43, RRSIG |-> 46, NSEC |-> 47, ANY |-> 255]

codes == [NOERROR |-> 0, NXDOMAIN |-> 3]

(***************************************************************************)
(* util.js: names.                                                         *)
(***************************************************************************)
\* The labels of the model in bytewise order ("*" is 0x2a, "." never occurs).
LabelOrder == <<"*", "a", "b", "com", "example", "ns", "nx", "other", "sub", "x">>

\* The place of a label in bytewise order.
LabelRank(l) == CHOOSE i \in 1..Len(LabelOrder) : LabelOrder[i] = l

\* String.prototype.toLowerCase on one label: the upper-case spellings the
\* inputs use, and every other label as it is.
toLowerCaseLabel(l) ==
  CASE l = "COM" -> "com"
    [] l = "A" -> "a"
    [] l = "EXAMPLE" -> "example"
    [] OTHER -> l

\* name.toLowerCase()
toLowerCase(name) == [i \in 1..Len(name) |-> toLowerCaseLabel(name[i])]

Root == <<>>

\* util.countLabels(name)
countLabels(name) == Len(name)

\* util.splitName(name): the labels of name
splitName(name) == name

\* util.from(name, labels, index): the suffix of name that starts at label
\* index; a negative index counts from the right; -0 is 0 in JavaScript.
from(name, index) ==
  LET n == Len(name)
      i == IF index < 0 THEN index + n ELSE index
  IN  IF i >= n THEN Root
      ELSE IF i < 0 THEN name
      ELSE SubSeq(name, i + 1, n)

\* util.equal(a, b)
equal(a, b) == a = b

\* util.isSubdomain(parent, child): child is parent or lies below it
isSubdomain(parent, child) ==
  /\ Len(child) >= Len(parent)
  /\ SubSeq(child, Len(child) - Len(parent) + 1, Len(child)) = parent

\* util.compare(a, b): canonical DNS order, label by label from the right;
\* -1, 0 or 1.
RECURSIVE compareFrom(_, _, _)
compareFrom(a, b, i) ==
  IF i > Len(a) /\ i > Len(b) THEN 0
  ELSE IF i > Len(a) THEN -1
  ELSE IF i > Len(b) THEN 1
  ELSE LET x == LabelRank(a[Len(a) - i + 1])
           y == LabelRank(b[Len(b) - i + 1])
       IN  IF x < y THEN -1
           ELSE IF x > y THEN 1
           ELSE compareFrom(a, b, i + 1)

compare(a, b) == compareFrom(a, b, 1)

(***************************************************************************)
(* Helpers of zone.js.                                                     *)
(***************************************************************************)
\* isWild(name): name starts with "*."
isWild(name) == Len(name) >= 1 /\ name[1] = "*"

\* convert(name, rr): a wildcard record is cloned with the queried owner
convert(name, rr) ==
  IF ~isWild(rr.name) THEN rr ELSE [rr EXCEPT !.name = name]

\* search(items, key, compare, insert): binary search.  The result is the
\* position (0-based, as in the code) of key, or else the insertion point
\* (insert) or -1.
RECURSIVE searchLoop(_, _, _, _, _)
searchLoop(items, key, start, end, ins) ==
  IF start <= end
  THEN LET pos == (start + end) \div 2
           cmp == compare(items[pos + 1], key)
       IN  IF cmp = 0 THEN pos
           ELSE IF cmp < 0 THEN searchLoop(items, key, pos + 1, end, ins)
           ELSE searchLoop(items, key, start, pos - 1, ins)
  ELSE IF ~ins THEN -1 ELSE start

search(items, key, ins) == searchLoop(items, key, 0, Len(items) - 1, ins)

\* items.splice(i, 0, item), which unshift and push specialise
splice(items, i, item) ==
  SubSeq(items, 1, i) \o <<item>> \o SubSeq(items, i + 1, Len(items))

\* insert(items, item, compare, uniq): [i, items]; i = -1 when item is there
insert(items, item, uniq) ==
  LET i == search(items, item, TRUE)
  IN  IF uniq /\ i < Len(items) /\ compare(items[i + 1], item) = 0
      THEN [i |-> -1, items |-> items]
      ELSE [i |-> i, items |-> splice(items, i, item)]

\* insertString with uniq left false: a name already there goes in again.
insertStringAgain(items, name) == insert(items, name, FALSE).items

\* insertString(items, name): the list after the call
insertString(items, name) == insert(items, name, TRUE).items

\* findLower(items, name).  status "ok" with value (found: a name was
\* returned, else null), "NotAnNXDOMAIN" for the thrown Error, and
\* "TypeError" when items[i] is undefined and util.compare is handed it.
findLower(items, name) ==
  IF Len(items) = 0
  THEN [status |-> "ok", found |-> FALSE, value |-> Root]
  ELSE LET i == search(items, name, TRUE)
       IN  IF i >= Len(items)
           THEN [status |-> "TypeError", found |-> FALSE, value |-> Root]
           ELSE LET match == items[i + 1]
                    cmp == compare(match, name)
                IN  IF cmp = 0
                    THEN [status |-> "NotAnNXDOMAIN", found |-> FALSE, value |-> Root]
                    ELSE IF cmp < 0
                    THEN [status |-> "ok", found |-> TRUE, value |-> match]
                    ELSE IF i = 0
                    THEN [status |-> "ok", found |-> FALSE, value |-> Root]
                    ELSE [status |-> "ok", found |-> TRUE, value |-> items[i]]

(***************************************************************************)
(* wire.js and dnssec.js: what zone.js uses of Record and of the signer.   *)
(***************************************************************************)
\* rr.canonical(): lower-cases the owner and the names embedded in the data
canonical(rr) ==
  LET t == rr.type
      d == rr.data
      data ==
        IF t \in {types.CNAME, types.DNAME, types.SRV}
        THEN [d EXCEPT !.target = toLowerCase(d.target)]
        ELSE IF t \in {types.NS, types.SOA}
        THEN [d EXCEPT !.ns = toLowerCase(d.ns)]
        ELSE IF t = types.MX
        THEN [d EXCEPT !.mx = toLowerCase(d.mx)]
        ELSE d
  IN  [name |-> toLowerCase(rr.name), type |-> t, data |-> data]

\* dnssec.sign(zskkey, zskpriv, an): an RRSIG over the list, owned by and
\* covering the type of its first record.
sign(an) ==
  [name |-> an[1].name, type |-> types.RRSIG,
   data |-> [typeCovered |-> an[1].type, synthesized |-> TRUE]]

\* The zone has no key (the constructor's null).
NoKey == [set |-> FALSE, name |-> Root]

(***************************************************************************)
(* Maps (JavaScript Map): a function whose domain is the set of keys.      *)
(***************************************************************************)
EmptyMap == [k \in {} |-> <<>>]

MapHas(m, k) == k \in DOMAIN m

MapSet(m, k, v) == [x \in (DOMAIN m) \cup {k} |-> IF x = k THEN v ELSE m[x]]

\* The list under k with item appended, made when missing.
MapAppend(m, k, item) ==
  MapSet(m, k, (IF MapHas(m, k) THEN m[k] ELSE <<>>) \o <<item>>)

Range(s) == {s[i] : i \in DOMAIN s}

(***************************************************************************)
(* RecordMap                                                               *)
(***************************************************************************)
\* new RecordMap(zone), and the map after clear()
NewRecordMap == [rrs |-> EmptyMap, sigs |-> EmptyMap]

\* RecordMap.insert(rr)
RecordMapInsert(map, rr) ==
  [rrs |-> MapAppend(map.rrs, rr.type, rr),
   sigs |-> IF rr.type = types.RRSIG
            THEN MapAppend(map.sigs, rr.data.typeCovered, rr)
            ELSE map.sigs]

\* The test of RecordMap.filterMatches for one record.
matches(name, rr) ==
  \/ ~isWild(rr.name)
  \/ LET x == splitName(name)
         y == Tail(splitName(rr.name))
     IN  /\ Len(x) >= Len(y) + 1
         /\ \A i \in 1..Len(y) : y[Len(y) - i + 1] = x[Len(x) - i + 1]

\* RecordMap.filterMatches(name, rrs)
filterMatches(name, rrs) ==
  LET keep(rr) == matches(name, rr)
  IN  SelectSeq(rrs, keep)

\* for (const rr of rrs) an.push(convert(name, rr))
pushAll(name, rrs, an) ==
  an \o [i \in 1..Len(rrs) |-> convert(name, rrs[i])]

\* const sig = dnssec.sign(...); an.push(sig).  [err, an]; err when the
\* signer is handed an empty list, which it refuses.
pushSigned(an) ==
  IF an = <<>>
  THEN [err |-> TRUE, an |-> an]
  ELSE [err |-> FALSE, an |-> Append(an, sign(an))]

\* The second half of the block RecordMap.push runs for the type it settles
\* on: the stored signatures covering the type, or else one made on the fly.
pushSigs(map, key, name, type, an) ==
  IF MapHas(map.sigs, type)
  THEN [err |-> FALSE, an |-> pushAll(name, filterMatches(name, map.sigs[type]), an)]
  ELSE IF key.set
  THEN pushSigned(an)
  ELSE [err |-> FALSE, an |-> an]

\* The whole block: the matching records of the type, then pushSigs.
emit(map, key, name, type, an) ==
  pushSigs(map, key, name, type,
           pushAll(name, filterMatches(name, map.rrs[type]), an))

\* cnameFirst with the test on the type turned round (=== for !==).
cnameFirstTurned(map, type) ==
  /\ type = types.CNAME
  /\ MapHas(map.rrs, types.CNAME)
  /\ Len(map.rrs[types.CNAME]) > 0

\* Whether RecordMap.push answers with the CNAMEs whatever the type asked.
cnameFirst(map, type) ==
  /\ type # types.CNAME
  /\ MapHas(map.rrs, types.CNAME)
  /\ Len(map.rrs[types.CNAME]) > 0

\* RecordMap.push(name, type, an)
RecordMapPush(map, key, name, type, an) ==
  IF cnameFirst(map, type)
  THEN emit(map, key, name, types.CNAME, an)
  ELSE IF MapHas(map.rrs, type) /\ Len(map.rrs[type]) > 0
  THEN emit(map, key, name, type, an)
  ELSE [err |-> FALSE, an |-> an]

(***************************************************************************)
(* NameList                                                                *)
(***************************************************************************)
\* NameList.insert(name): the names after the call
NameListInsert(list, name) == insertString(list, name)

\* NameList.lower(name)
NameListLower(list, name) == findLower(list, name)

(***************************************************************************)
(* Zone.  z is the zone object: [origin, count, names, wild, nsec, zskkey].*)
(***************************************************************************)
\* An argument that is an array, and one that was left out.
Arr(list) == [isArray |-> TRUE, items |-> list]

undefined == [isArray |-> FALSE, items |-> <<>>]

\* Zone.insert(record): [ok, z]; not ok is the thrown 'Not a child of this
\* zone.', which leaves the zone as it was.
ZoneInsert(z, record) ==
  LET rr == canonical(record)
  IN  IF rr.type # types.A /\ rr.type # types.AAAA /\ ~isSubdomain(z.origin, rr.name)
      THEN [ok |-> FALSE, z |-> z]
      ELSE LET z1 ==
                 IF isWild(rr.name)
                 THEN [z EXCEPT !.wild = RecordMapInsert(z.wild, rr)]
                 ELSE LET map == IF MapHas(z.names, rr.name)
                                 THEN z.names[rr.name]
                                 ELSE NewRecordMap
                      IN  [z EXCEPT !.names =
                             MapSet(z.names, rr.name, RecordMapInsert(map, rr))]
           IN  [ok |-> TRUE,
                z |-> IF rr.type = types.NSEC
                      THEN [z1 EXCEPT !.nsec = NameListInsert(z1.nsec, rr.name)]
                      ELSE z1]

\* Zone.push(name, type, an): [err, an]; err when an is no array (the
\* assertion) or the signer throws.
ZonePush(z, name, type, an) ==
  IF ~an.isArray
  THEN [err |-> TRUE, an |-> an.items]
  ELSE IF MapHas(z.names, name)
  THEN RecordMapPush(z.names[name], z.zskkey, name, type, an.items)
  ELSE RecordMapPush(z.wild, z.zskkey, name, type, an.items)

\* Zone.get(name, type)
ZoneGet(z, name, type) == ZonePush(z, name, type, Arr(<<>>))

\* Zone.has(name, type)
ZoneHas(z, name, type) ==
  MapHas(z.names, name) /\ MapHas(z.names[name].rrs, type)

\* this.push(name, type, an) after an earlier push returned r.
thenPush(z, name, type, r) ==
  IF r.err THEN r ELSE ZonePush(z, name, type, Arr(r.an))

\* The end of Zone.glue when nothing was pushed: soa is what
\* this.push(name, types.SOA, ns) returned.
glueNone(an, soa) == [err |-> soa.err, an |-> an, ns |-> soa.an]

\* Zone.glue after its pushes returned pushed: if (initial === final) ...
glueEnd(z, name, initial, ns, pushed) ==
  IF pushed.err
  THEN [err |-> TRUE, an |-> pushed.an, ns |-> ns.items]
  ELSE IF initial = Len(pushed.an)
  THEN glueNone(pushed.an, ZonePush(z, name, types.SOA, ns))
  ELSE [err |-> FALSE, an |-> pushed.an, ns |-> ns.items]

\* Zone.glue(name, an, type, ns): [err, an, ns].  A call that leaves type out
\* passes 0 here: !type holds of both, and the branch reads type no further.
ZoneGlue(z, name, an, type, ns) ==
  glueEnd(z, name, Len(an), ns,
          IF type = 0
          THEN thenPush(z, name, types.AAAA, ZonePush(z, name, types.A, Arr(an)))
          ELSE ZonePush(z, name, type, Arr(an)))

\* Every record the zone stores.
MapRecords(map) == UNION {Range(map.rrs[t]) : t \in DOMAIN map.rrs}

AllRecords(z) ==
  MapRecords(z.wild) \cup UNION {MapRecords(z.names[n]) : n \in DOMAIN z.names}

\* The owners a CNAME or DNAME of the zone points to.  A chain of chases
\* longer than their number chases one target twice, and then for ever: a
\* chase of a target appends the same records each time.
ChaseTargets(z) ==
  {rr.data.target : rr \in {r \in AllRecords(z) : r.type \in {types.CNAME, types.DNAME}}}

\* depth extended for the entries a chase of the entry at depth d appended.
Deeper(depth, d, an) ==
  depth \o [i \in 1..(Len(an) - Len(depth)) |-> d + 1]

\* The lists of Zone.find after a chase into the answer list returned g,
\* and after a chase into the additional list did.
chased(g, ar) == [err |-> g.err, an |-> g.an, ar |-> ar, ns |-> g.ns]

glued(g, an, ns) == [err |-> g.err, an |-> an, ar |-> g.an, ns |-> ns]

\* The name the switch of Zone.find chases for a record that is no alias.
glueName(rr) ==
  IF rr.type \in {types.NS, types.SOA} THEN rr.data.ns
  ELSE IF rr.type = types.MX THEN rr.data.mx
  ELSE rr.data.target

\* One round of the loop of Zone.find, on rr = an[i]: [err, an, ar, ns].
visit(z, type, an, ar, ns, rr) ==
  IF rr.type \in {types.CNAME, types.DNAME}
  THEN chased(ZoneGlue(z, rr.data.target, an, type, Arr(ns)), ar)
  ELSE IF rr.type \in {types.NS, types.SOA, types.MX, types.SRV}
  THEN glued(ZoneGlue(z, glueName(rr), ar, 0, undefined), an, ns)
  ELSE [err |-> FALSE, an |-> an, ar |-> ar, ns |-> ns]

FindVisit(z, type, an, ar, ns, i) == visit(z, type, an, ar, ns, an[i])

\* The loop of Zone.find from entry i on.  depth[k] counts the chases that
\* led to an[k]; the loop visits entries in order of depth, so when it
\* comes to one deeper than the zone has chase targets it has visited every
\* record it will ever visit, none threw, and it never ends: "diverges".
\* FindAfter goes on after round i returned v.
RECURSIVE FindLoop(_, _, _, _, _, _, _)
RECURSIVE FindAfter(_, _, _, _, _)
FindLoop(z, type, an, ar, ns, depth, i) ==
  IF i > Len(an)
  THEN [status |-> "ok", an |-> an, ar |-> ar, ns |-> ns]
  ELSE IF depth[i] > Cardinality(ChaseTargets(z))
  THEN [status |-> "diverges", an |-> an, ar |-> ar, ns |-> ns]
  ELSE FindAfter(z, type, depth, i, FindVisit(z, type, an, ar, ns, i))

FindAfter(z, type, depth, i, v) ==
  IF v.err
  THEN [status |-> "error", an |-> v.an, ar |-> v.ar, ns |-> v.ns]
  ELSE FindLoop(z, type, v.an, v.ar, v.ns, Deeper(depth, depth[i], v.an), i + 1)

\* Zone.find after const an = this.get(name, type) returned g.
findFrom(z, type, g) ==
  IF g.err
  THEN [status |-> "error", an |-> g.an, ar |-> <<>>, ns |-> <<>>]
  ELSE FindLoop(z, type, g.an, <<>>, <<>>, [i \in 1..Len(g.an) |-> 0], 1)

\* Zone.find(name, type): [status, an, ar, ns]
ZoneFind(z, name, type) == findFrom(z, type, ZoneGet(z, name, type))

\* Zone.proveNoData(ns): [err, an]
proveNoData(z, ns) == ZonePush(z, z.origin, types.NSEC, Arr(ns))

\* this.proveNoData(ns) after an earlier push returned p.
thenNoData(z, p) == IF p.err THEN p ELSE proveNoData(z, p.an)

\* Zone.proveNameError after this.nsec.lower(name) returned lower.
nameErrorFrom(z, ns, lower) ==
  IF lower.status # "ok"
  THEN [err |-> TRUE, an |-> ns]
  ELSE thenNoData(z, IF lower.found
                     THEN ZonePush(z, lower.value, types.NSEC, Arr(ns))
                     ELSE [err |-> FALSE, an |-> ns])

\* Zone.proveNameError(name, ns): [err, an]
proveNameError(z, name, ns) == nameErrorFrom(z, ns, NameListLower(z.nsec, name))

\* What Zone.query returns, and what stands for a call that threw or hangs.
Tuple(an, ns, ar, aa, ok) ==
  [status |-> "ok", an |-> an, ns |-> ns, ar |-> ar, aa |-> aa, ok |-> ok]

Failed(status) ==
  [status |-> status, an |-> <<>>, ns |-> <<>>, ar |-> <<>>, aa |-> FALSE, ok |-> FALSE]

\* return [[], ns, ar, aa, ok] where ns is what a last push returned
authorityOf(p, ar, aa, ok) ==
  IF p.err THEN Failed("error") ELSE Tuple(<<>>, p.an, ar, aa, ok)

\* this.proveNameError(child, ns) after ns = this.get(this.origin, SOA)
nameError(z, child, soa) ==
  IF soa.err THEN soa ELSE proveNameError(z, child, soa.an)

\* Zone.query after [ns, glue] = this.find(child, types.NS) returned f: the
\* name error or the referral.
referral(z, child, f) ==
  IF f.status # "ok" THEN Failed(f.status)
  ELSE IF Len(f.an) = 0
  THEN IF z.origin = Root
       THEN authorityOf(nameError(z, child, ZoneGet(z, z.origin, types.SOA)),
                        <<>>, FALSE, FALSE)
       ELSE Tuple(<<>>, <<>>, <<>>, FALSE, FALSE)
  ELSE authorityOf(ZonePush(z, child, types.DS, Arr(f.an)), f.ar, FALSE, TRUE)

\* Zone.query, from "Otherwise, they're requesting a deeper subdomain" on.
queryBelow(z, name) ==
  referral(z, from(name, 0 - (z.count + 1)),
           ZoneFind(z, from(name, 0 - (z.count + 1)), types.NS))

\* answer with the two returns of the non-authoritative case alike: what
\* was found goes out as authority whatever the type.
answerAsAuthority(z, name, type, authority, f) ==
  IF f.status # "ok" THEN Failed(f.status)
  ELSE IF Len(f.an) > 0
  THEN IF ~authority
       THEN IF type = types.NS
            THEN authorityOf(ZonePush(z, name, types.DS, Arr(f.an)), f.ar, FALSE, TRUE)
            ELSE Tuple(<<>>, f.an, f.ar, FALSE, TRUE)
       ELSE Tuple(f.an, f.ns, f.ar, TRUE, TRUE)
  ELSE IF authority
  THEN authorityOf(thenNoData(z, ZoneGet(z, z.origin, types.SOA)), <<>>, TRUE, FALSE)
  ELSE queryBelow(z, name)

\* Zone.query after this.find(name, type) returned f.
answer(z, name, type, authority, f) ==
  IF f.status # "ok" THEN Failed(f.status)
  ELSE IF Len(f.an) > 0
  THEN IF ~authority
       THEN IF type = types.NS
            THEN authorityOf(ZonePush(z, name, types.DS, Arr(f.an)), f.ar, FALSE, TRUE)
            ELSE Tuple(f.an, <<>>, f.ar, FALSE, TRUE)
       ELSE Tuple(f.an, f.ns, f.ar, TRUE, TRUE)
  ELSE IF authority
  THEN authorityOf(thenNoData(z, ZoneGet(z, z.origin, types.SOA)), <<>>, TRUE, FALSE)
  ELSE queryBelow(z, name)

\* Zone.query(name, type)
ZoneQuery(z, name, type) ==
  answer(z, name, type, equal(from(name, 0 - z.count), z.origin),
         ZoneFind(z, name, type))

\* The Message Zone.resolve builds from what this.query returned.
message(q) ==
  IF q.status # "ok"
  THEN [status |-> q.status]
  ELSE [status |-> "ok",
        code |-> IF ~q.aa /\ ~q.ok THEN codes.NXDOMAIN ELSE codes.NOERROR,
        aa |-> q.aa, answer |-> q.an, authority |-> q.ns, additional |-> q.ar]

\* Zone.resolve(name, type): the message, or that the call threw or hangs
ZoneResolve(z, name, type) ==
  message(ZoneQuery(z, toLowerCase(name),
                    IF type = types.ANY THEN types.NS ELSE type))

(***************************************************************************)
(* The state machine.  res is what the last call returned (or that it      *)
(* threw); frame is the activation of Zone.find while its loop runs.       *)
(***************************************************************************)
\* The zone object of the current state, and of the next.
Zone ==
  [origin |-> origin, count |-> count, names |-> names, wild |-> wild,
   nsec |-> nsec, zskkey |-> zskkey]

ZoneNext ==
  [origin |-> origin', count |-> count', names |-> names', wild |-> wild',
   nsec |-> nsec', zskkey |-> zskkey']

Idle == [pc |-> "idle"]

RECURSIVE SumFn(_)
SumFn(f) ==
  IF DOMAIN f = {} THEN 0
  ELSE LET k == CHOOSE k \in DOMAIN f : TRUE
       IN  f[k] + SumFn([x \in (DOMAIN f) \ {k} |-> f[x]])

MapSize(map) == SumFn([t \in DOMAIN map.rrs |-> Len(map.rrs[t])])

\* The number of records the zone stores.
NumRecords(z) ==
  MapSize(z.wild) + SumFn([n \in DOMAIN z.names |-> MapSize(z.names[n])])

\* new Zone(origin): setOrigin lower-cases the origin and counts its labels
InitWith(origins) ==
  /\ origin \in {toLowerCase(o) : o \in origins}
  /\ count = countLabels(origin)
  /\ names = EmptyMap
  /\ wild = NewRecordMap
  /\ nsec = <<>>
  /\ zskkey = NoKey
  /\ res = [op |-> "new"]
  /\ frame = Idle

\* zone.insert(record)
Insert(record) ==
  /\ frame.pc = "idle"
  /\ NumRecords(Zone) < MaxRecords
  /\ LET r == ZoneInsert(Zone, record)
     IN  /\ names' = r.z.names
         /\ wild' = r.z.wild
         /\ nsec' = r.z.nsec
         /\ res' = [op |-> "insert", rr |-> record, ok |-> r.ok]
  /\ UNCHANGED <<origin, count, zskkey, frame>>

\* zone.clearRecords()
ClearRecords ==
  /\ frame.pc = "idle"
  /\ names' = EmptyMap
  /\ wild' = NewRecordMap
  /\ nsec' = <<>>
  /\ res' = [op |-> "clearRecords"]
  /\ UNCHANGED <<origin, count, zskkey, frame>>

\* zone.clear()
Clear ==
  /\ frame.pc = "idle"
  /\ origin' = Root
  /\ count' = 0
  /\ names' = EmptyMap
  /\ wild' = NewRecordMap
  /\ nsec' = <<>>
  /\ res' = [op |-> "clear"]
  /\ UNCHANGED <<zskkey, frame>>

\* zone.setZSKFromString(str), with a string the decoder accepts
SetZSK ==
  /\ frame.pc = "idle"
  /\ ~zskkey.set
  /\ zskkey' = [set |-> TRUE, name |-> origin]
  /\ res' = [op |-> "setZSK"]
  /\ UNCHANGED <<origin, count, names, wild, nsec, frame>>

\* zone.get(name, type)
Get(name, type) ==
  /\ frame.pc = "idle"
  /\ LET g == ZoneGet(Zone, name, type)
     IN  res' = [op |-> "get", name |-> name, type |-> type,
                 status |-> IF g.err THEN "error" ELSE "ok", an |-> g.an]
  /\ UNCHANGED <<origin, count, names, wild, nsec, zskkey, frame>>

\* zone.nsec.lower(name)
Lower(name) ==
  /\ frame.pc = "idle"
  /\ LET l == NameListLower(nsec, name)
     IN  res' = [op |-> "lower", name |-> name, status |-> l.status,
                 found |-> l.found, value |-> l.value]
  /\ UNCHANGED <<origin, count, names, wild, nsec, zskkey, frame>>

\* zone.query(name, type)
Query(name, type) ==
  /\ frame.pc = "idle"
  /\ res' = [op |-> "query", name |-> name, type |-> type,
             out |-> ZoneQuery(Zone, name, type)]
  /\ UNCHANGED <<origin, count, names, wild, nsec, zskkey, frame>>

\* zone.resolve(name, type)
Resolve(name, type) ==
  /\ frame.pc = "idle"
  /\ res' = [op |-> "resolve", name |-> name, type |-> type,
             msg |-> ZoneResolve(Zone, name, type)]
  /\ UNCHANGED <<origin, count, names, wild, nsec, zskkey, frame>>

\* zone.find after const an = this.get(name, type) returned g: the loop starts
FindStart(name, type, g) ==
  IF g.err
  THEN /\ res' = [op |-> "find", name |-> name, type |-> type, status |-> "error"]
       /\ frame' = Idle
  ELSE /\ res' = [op |-> "find", name |-> name, type |-> type, status |-> "running"]
       /\ frame' = [pc |-> "find", name |-> name, type |-> type,
                    an |-> g.an, ar |-> <<>>, ns |-> <<>>,
                    depth |-> [i \in 1..Len(g.an) |-> 0], i |-> 1]

\* zone.find(name, type), up to its loop
FindCall(name, type) ==
  /\ frame.pc = "idle"
  /\ FindStart(name, type, ZoneGet(Zone, name, type))
  /\ UNCHANGED <<origin, count, names, wild, nsec, zskkey>>

\* The round returned v: the call throws, or the loop goes on to i + 1
FindAdvance(v) ==
  IF v.err
  THEN /\ res' = [res EXCEPT !.status = "error"]
       /\ frame' = Idle
  ELSE /\ res' = res
       /\ frame' = [frame EXCEPT !.an = v.an, !.ar = v.ar, !.ns = v.ns,
                      !.depth = Deeper(frame.depth, frame.depth[frame.i], v.an),
                      !.i = frame.i + 1]

\* One round of for (const rr of an) in zone.find
FindStep ==
  /\ frame.pc = "find"
  /\ frame.i <= Len(frame.an)
  /\ Len(frame.an) < MaxAnswer
  /\ FindAdvance(FindVisit(Zone, frame.type, frame.an, frame.ar, frame.ns, frame.i))
  /\ UNCHANGED <<origin, count, names, wild, nsec, zskkey>>

\* The loop of zone.find is through: return [an, ar, ns]
FindReturn ==
  /\ frame.pc = "find"
  /\ frame.i > Len(frame.an)
  /\ res' = [op |-> "find", name |-> frame.name, type |-> frame.type, status |-> "ok",
             an |-> frame.an, ar |-> frame.ar, ns |-> frame.ns]
  /\ frame' = Idle
  /\ UNCHANGED <<origin, count, names, wild, nsec, zskkey>>

(***************************************************************************)
(* Inputs: the names, records and queries the calls are made with.         *)
(***************************************************************************)
Example == <<"example">>

RR(name, type, data) == [name |-> name, type |-> type, data |-> data]

Addr(name, type, address) == RR(name, type, [address |-> address])

To(name, type, target) == RR(name, type, [target |-> target])

NS(name, ns) == RR(name, types.NS, [ns |-> ns])

SOA(name, ns) == RR(name, types.SOA, [ns |-> ns])

DS(name) == RR(name, types.DS, [digest |-> "d"])

NSEC(name) == RR(name, types.NSEC, [typeBitmap |-> "b"])

RRSIG(name, covered) ==
  RR(name, types.RRSIG, [typeCovered |-> covered, synthesized |-> FALSE])

\* A root zone with a delegation, and a zone example. with an alias, a
\* delegation and out-of-zone glue.
QueryRecords ==
  {SOA(Root, <<"ns", "com">>),
   NS(<<"COM">>, <<"ns", "COM">>),
   Addr(<<"ns", "com">>, types.A, "192.0.2.1"),
   DS(<<"com">>),
   NSEC(Root),
   NSEC(<<"com">>),
   SOA(Example, <<"ns", "com">>),
   To(<<"a", "example">>, types.CNAME, <<"nx", "other">>),
   NS(<<"sub", "example">>, <<"ns", "com">>)}

QueryNames ==
  {Root, <<"com">>, <<"x", "com">>, <<"ns", "com">>, <<"x">>,
   Example, <<"a", "example">>, <<"x", "sub", "example">>}

QueryTypes == {types.A, types.NS, types.DS, types.SOA}

ResolveNames ==
  {Root, <<"com">>, <<"x", "COM">>, <<"x">>, Example, <<"a", "example">>,
   <<"x", "sub", "example">>}

ResolveTypes == {types.A, types.NS, types.ANY}

\* Wildcard owners, an owner that shadows one, and an alias beside other data.
GetRecords ==
  {Addr(<<"*", "example">>, types.A, "192.0.2.1"),
   To(<<"*", "a", "example">>, types.CNAME, <<"b", "example">>),
   Addr(<<"x", "example">>, types.A, "192.0.2.2"),
   To(<<"a", "example">>, types.CNAME, <<"b", "example">>),
   Addr(<<"A", "example">>, types.A, "192.0.2.3"),
   RRSIG(<<"a", "example">>, types.CNAME),
   RRSIG(<<"a", "example">>, types.A),
   NSEC(Example)}

GetNames ==
  {<<"x", "example">>, <<"b", "example">>, <<"a", "example">>,
   <<"x", "a", "example">>, Example}

GetTypes == {types.A, types.CNAME, types.RRSIG}

\* Owners of NSEC records, in and out of order, one of them twice spelt.
NsecRecords ==
  {NSEC(Root), NSEC(<<"a">>), NSEC(<<"com">>), NSEC(<<"COM">>),
   NSEC(<<"x", "com">>), NSEC(<<"*", "com">>), NSEC(<<"ns">>),
   Addr(<<"b">>, types.A, "192.0.2.1")}

LowerNames ==
  {Root, <<"a">>, <<"b">>, <<"com">>, <<"a", "com">>, <<"x", "com">>, <<"ns">>, <<"x">>}

\* Aliases that end, that loop, and that end at a name server without glue.
FindRecords ==
  {To(<<"a", "example">>, types.CNAME, <<"a", "example">>),
   To(<<"a", "example">>, types.CNAME, <<"b", "example">>),
   To(<<"b", "example">>, types.CNAME, <<"a", "example">>),
   To(<<"b", "example">>, types.CNAME, <<"x", "example">>),
   To(<<"sub", "example">>, types.DNAME, <<"x", "example">>),
   Addr(<<"x", "example">>, types.A, "192.0.2.1"),
   NS(<<"x", "example">>, <<"ns", "example">>),
   Addr(<<"ns", "example">>, types.A, "192.0.2.2")}

FindNames == {<<"a", "example">>, <<"b", "example">>, <<"sub", "example">>, <<"x", "example">>}

FindTypes == {types.A, types.NS, types.CNAME, types.DNAME}

(***************************************************************************)
(* Specifications.                                                         *)
(***************************************************************************)
\* Zone.query against a zone under construction.
Init == InitWith({Root, <<"EXAMPLE">>})

Next ==
  \/ \E r \in QueryRecords : Insert(r)
  \/ Clear
  \/ \E n \in QueryNames, t \in QueryTypes : Query(n, t)

Spec == Init /\ [][Next]_vars

\* Zone.resolve against a zone under construction.
InitResolve == InitWith({Root, Example})

NextResolve ==
  \/ \E r \in QueryRecords : Insert(r)
  \/ Clear
  \/ \E n \in ResolveNames, t \in ResolveTypes : Resolve(n, t)

SpecResolve == InitResolve /\ [][NextResolve]_vars

\* Retrieval: wildcards, aliases, signatures.
InitGet == InitWith({Example})

NextGet ==
  \/ \E r \in GetRecords : Insert(r)
  \/ SetZSK
  \/ \E n \in GetNames, t \in GetTypes : Get(n, t)

SpecGet == InitGet /\ [][NextGet]_vars

\* The NSEC name list.
InitNsec == InitWith({Root, Example})

NextNsec ==
  \/ \E r \in NsecRecords : Insert(r)
  \/ Clear
  \/ ClearRecords
  \/ \E n \in LowerNames : Lower(n)

SpecNsec == InitNsec /\ [][NextNsec]_vars

\* Zone.find, one round of its loop at a time.
InitFind == InitWith({Example})

NextFind ==
  \/ \E r \in FindRecords : Insert(r)
  \/ \E n \in FindNames, t \in FindTypes : FindCall(n, t)
  \/ FindStep
  \/ FindReturn

SpecFind == InitFind /\ [][NextFind]_vars

(***************************************************************************)
(* The claims.                                                             *)
(***************************************************************************)
\* The records stored under the exact owner name with the type.
Stored(z, name, type) ==
  IF MapHas(z.names, name) /\ MapHas(z.names[name].rrs, type)
  THEN z.names[name].rrs[type]
  ELSE <<>>

OfType(an, type) ==
  LET is(rr) == rr.type = type
  IN  SelectSeq(an, is)

\* C1: Zone.resolve raises no error and returns a message whose code is
\* NOERROR or NXDOMAIN, whatever the zone holds and whatever is asked.
\* Stated for zones without NSEC records, where a name error consults no
\* NameList: what fails is the glue of a name-server target that has no
\* address records.
C1_ResolveNeverFails ==
  (res.op = "resolve" /\ nsec = <<>>) =>
    /\ res.msg.status = "ok"
    /\ res.msg.code \in {codes.NOERROR, codes.NXDOMAIN}

\* C2: the loop of Zone.find ends.  It ends exactly if it never comes to an
\* entry that more chases led to than the zone has chase targets: such an
\* entry's chain chased one target twice, every chase of a target appends
\* the same records, and the loop has by then visited every record it will
\* ever visit without any throwing.
C2_FindEnds ==
  (frame.pc = "find" /\ frame.i <= Len(frame.an)) =>
    frame.depth[frame.i] <= Cardinality(ChaseTargets(Zone))

\* The records of wildcard owner w with the type, owners rewritten to q.
Rewritten(w, type, q) ==
  LET at(rr) == rr.name = w
      set == IF MapHas(wild.rrs, type) THEN SelectSeq(wild.rrs[type], at) ELSE <<>>
  IN  [i \in 1..Len(set) |-> [set[i] EXCEPT !.name = q]]

\* C3: for a wildcard owner *.S holding records of type T and a name Q of
\* one or more labels before S, Zone.get(Q, T) returns those records with
\* the owner rewritten to Q if and only if no exact owner Q exists.  Read
\* with CNAME exclusivity in force at *.S itself: a T other than CNAME is
\* asked only of wildcard owners that hold no CNAME.
C3_WildcardLaw ==
  (res.op = "get") =>
    \A w \in {rr.name : rr \in MapRecords(wild)} :
      LET set == Rewritten(w, res.type, res.name)
      IN  ( /\ set # <<>>
            /\ Len(res.name) >= Len(w)
            /\ isSubdomain(Tail(w), res.name)
            /\ (res.type = types.CNAME \/ Rewritten(w, types.CNAME, res.name) = <<>>) )
          => ( (res.status = "ok" /\ Range(set) \subseteq Range(res.an))
               <=> ~MapHas(names, res.name) )

\* C4: inserting a record a second time changes no Zone.get result, and a
\* second NSEC leaves its owner once in the NSEC NameList.
C4_IdempotentIngest ==
  [][ (res.op = "insert" /\ res.ok /\ res'.op = "insert" /\ res'.rr = res.rr) =>
        IF res.rr.type # types.NSEC
        THEN \A n \in GetNames, t \in GetTypes :
               ZoneGet(ZoneNext, n, t) = ZoneGet(Zone, n, t)
        ELSE Cardinality({i \in 1..Len(nsec') : nsec'[i] = toLowerCase(res.rr.name)}) = 1
    ]_vars

\* C5: NameList.lower(N) fails with 'Not an NXDOMAIN' when N is stored; else
\* it returns the greatest stored name below N, or none when there is none.
C5_LowerLaw ==
  (res.op = "lower") =>
    IF res.name \in Range(nsec)
    THEN res.status = "NotAnNXDOMAIN"
    ELSE LET below == {n \in Range(nsec) : compare(n, res.name) < 0}
         IN  /\ res.status = "ok"
             /\ res.found = (below # {})
             /\ res.found => /\ res.value \in below
                             /\ \A n \in below : compare(n, res.value) <= 0

\* C6: when an authoritative answer holds a CNAME or DNAME whose target has
\* no record of the type asked, the SOA stored at the origin is in the
\* authority list.
C6_CnameFallback ==
  (res.op = "query" /\ res.out.status = "ok" /\ res.out.aa) =>
    \A i \in 1..Len(res.out.an) :
      LET rr == res.out.an[i]
      IN  ( /\ rr.type \in {types.CNAME, types.DNAME}
            /\ ZoneGet(Zone, rr.data.target, res.type).an = <<>> )
          => Range(Stored(Zone, origin, types.SOA)) \subseteq Range(res.out.ns)

\* The A and AAAA records stored for the targets of the NS records.
RECURSIVE GlueOf(_, _)
GlueOf(z, nsset) ==
  IF nsset = <<>> THEN <<>>
  ELSE Stored(z, Head(nsset).data.ns, types.A)
         \o Stored(z, Head(nsset).data.ns, types.AAAA)
         \o GlueOf(z, Tail(nsset))

\* C7: a query other than DS for a name strictly below a delegation point D
\* (a proper subdomain of the origin holding NS records) returns a referral:
\* no answer, D's NS then DS records as authority, the glue of the NS
\* targets as additional, aa = false, ok = true.
C7_Referral ==
  (res.op = "query" /\ res.type # types.DS) =>
    \A d \in DOMAIN names :
      ( /\ Stored(Zone, d, types.NS) # <<>>
        /\ d # origin /\ isSubdomain(origin, d)
        /\ res.name # d /\ isSubdomain(d, res.name) )
      => res.out = Tuple(<<>>,
                         Stored(Zone, d, types.NS) \o Stored(Zone, d, types.DS),
                         GlueOf(Zone, Stored(Zone, d, types.NS)),
                         FALSE, TRUE)

\* The case of C8: Zone.find has an answer for a name whose suffix of the
\* origin's length is not the origin, and the type asked is not NS.
NonAuthoritativeAnswer ==
  /\ res.op = "query"
  /\ res.type # types.NS
  /\ ~equal(from(res.name, 0 - count), origin)
  /\ ZoneFind(Zone, res.name, res.type).status = "ok"
  /\ Len(ZoneFind(Zone, res.name, res.type).an) > 0

\* C8 as stated: in that case the records found are returned as authority,
\* with no answer, aa = false and ok = true.
C8_FoundInAuthority ==
  NonAuthoritativeAnswer =>
    /\ res.out.status = "ok"
    /\ res.out.an = <<>>
    /\ res.out.ns = ZoneFind(Zone, res.name, res.type).an
    /\ ~res.out.aa /\ res.out.ok

\* C8 amended: in that case the records found are returned as the answer,
\* with no authority, the glue found as additional, aa = false and ok = true.
C8_FoundInAnswer ==
  NonAuthoritativeAnswer =>
    res.out = Tuple(ZoneFind(Zone, res.name, res.type).an, <<>>,
                    ZoneFind(Zone, res.name, res.type).ar, FALSE, TRUE)

C8_Witness ==
  /\ NonAuthoritativeAnswer
  /\ res.out.status = "ok"
  /\ res.out.an # <<>>
  /\ origin # Root

\* C9: the NSEC NameList is strictly increasing in canonical order and holds
\* exactly the owners of the NSEC records inserted since the last clear or
\* clearRecords, which are the NSEC records the zone stores.
C9_NsecList ==
  /\ \A i \in 1..(Len(nsec) - 1) : compare(nsec[i], nsec[i + 1]) < 0
  /\ Range(nsec) = {rr.name : rr \in {r \in AllRecords(Zone) : r.type = types.NSEC}}

\* An NSEC went in ahead of the names stored, beside a repeated owner.
C9_Witness ==
  /\ res.op = "insert" /\ res.ok /\ res.rr.type = types.NSEC
  /\ Len(nsec) = 2
  /\ NumRecords(Zone) = 3
  /\ nsec[1] = toLowerCase(res.rr.name)
  /\ Len(Stored(Zone, nsec[2], types.NSEC)) = 2

\* C10: when the exact owner N holds a CNAME, Zone.get(N, T) for T other
\* than CNAME returns N's CNAME records, with at most RRSIGs covering CNAME
\* after them, and no other record stored at N; and Zone.insert accepts
\* every record at such an N.
C10_CnameExclusive ==
  /\ ( /\ res.op = "get"
       /\ res.type # types.CNAME
       /\ Stored(Zone, res.name, types.CNAME) # <<>> )
     => /\ res.status = "ok"
        /\ OfType(res.an, types.CNAME) = Stored(Zone, res.name, types.CNAME)
        /\ \A rr \in Range(res.an) :
             \/ rr.type = types.CNAME /\ rr.name = res.name
             \/ rr.type = types.RRSIG /\ rr.data.typeCovered = types.CNAME
  /\ ( /\ res.op = "insert"
       /\ Stored(Zone, toLowerCase(res.rr.name), types.CNAME) # <<>> )
     => res.ok

\* A type stored beside the CNAME was asked for and the CNAME came back.
C10_Witness ==
  /\ res.op = "get"
  /\ res.type = types.A
  /\ Stored(Zone, res.name, types.CNAME) # <<>>
  /\ Stored(Zone, res.name, types.A) # <<>>
  /\ Stored(Zone, res.name, types.RRSIG) # <<>>
  /\ res.an # <<>>

====
